---------------------------- MODULE Spec2Model ----------------------------
(***************************************************************************)
(* A model of xtlog: the singleton logger LogCls (src/xtlog/logger.py),    *)
(* its record hook format_record and the path helpers it uses              *)
(* (src/xtlog/utils.py), and the level table (src/xtlog/config.py).        *)
(*                                                                         *)
(* Python strings are sequences of one-character strings, so that the      *)
(* string operations of os.path are computed, not assumed.                 *)
(*                                                                         *)
(* Spec: the operations of LogCls, one call after another.                 *)
(* SpecFormat: format_record applied to a record.                          *)
(* SpecMT: threads in the constructor at once, a statement at a time.      *)
(* SpecRebuild: threads that reconfigure and use one instance at once.     *)
(***************************************************************************)
EXTENDS Integers, Sequences, FiniteSets, TLC

(***************************************************************************)
(* Bounds of the model.                                                    *)
(***************************************************************************)
\* longest path for which every string over PathChars is an input
MaxPathLen == 3

\* how many LogCls objects can be alive at once
MaxInst == 2

\* how many operations a run of the logger makes
MaxOps == 4

\* how many threads call the constructor at once
MaxThreads == 2

(***************************************************************************)
(* Strings.                                                                *)
(***************************************************************************)
SEP == "/"

DOT == "."

UNKNOWN == <<"u", "n", "k", "n", "o", "w", "n">>

Digits == <<"0", "1", "2", "3", "4", "5", "6", "7", "8", "9">>

RECURSIVE NatToStr(_)
\* the decimal digits of a natural number
NatToStr(n) ==
    IF n < 10 THEN <<Digits[n + 1]>>
    ELSE NatToStr(n \div 10) \o <<Digits[(n % 10) + 1]>>

\* str(n) / f"{n}" of a Python int
IntToStr(n) == IF n < 0 THEN <<"-">> \o NatToStr(0 - n) ELSE NatToStr(n)

\* s[i:j] with 0-based Python slice indexes, 0 <= i, j <= len(s)
Slice(s, i, j) == IF j <= i THEN <<>> ELSE SubSeq(s, i + 1, j)

\* s.rfind(c): the 0-based index of the last c in s, -1 when there is none
RFind(s, c) ==
    LET hits == {i \in 1..Len(s) : s[i] = c}
    IN  IF hits = {} THEN -1
        ELSE (CHOOSE i \in hits : \A j \in hits : j <= i) - 1

\* s.rstrip(c)
RECURSIVE RStrip(_, _)
RStrip(s, c) ==
    IF s # <<>> /\ s[Len(s)] = c THEN RStrip(SubSeq(s, 1, Len(s) - 1), c) ELSE s

\* s is made of separators only (s == sep * len(s))
AllSep(s) == \A i \in 1..Len(s) : s[i] = SEP

\* s.split(sep): the list of the pieces between separators
RECURSIVE SplitSep(_)
SplitSep(s) ==
    LET i == RFind(s, SEP)
    IN  IF i = -1 THEN <<s>>
        ELSE SplitSep(Slice(s, 0, i)) \o <<Slice(s, i + 1, Len(s))>>

\* sep.join(parts)
RECURSIVE Join(_, _)
Join(parts, c) ==
    IF parts = <<>> THEN <<>>
    ELSE IF Len(parts) = 1 THEN parts[1]
    ELSE Join(SubSeq(parts, 1, Len(parts) - 1), c) \o <<c>> \o parts[Len(parts)]

StartsWith(s, p) == Len(s) >= Len(p) /\ SubSeq(s, 1, Len(p)) = p

(***************************************************************************)
(* os.path (posixpath), as utils.py uses it.                               *)
(***************************************************************************)
\* the loop of posixpath.normpath over the components
RECURSIVE NormComps(_, _, _)
NormComps(comps, acc, initial) ==
    IF comps = <<>> THEN acc
    ELSE LET comp == comps[1]
             rest == Tail(comps)
         IN  IF comp = <<>> \/ comp = <<DOT>> THEN NormComps(rest, acc, initial)
             ELSE IF comp # <<DOT, DOT>>
                     \/ (initial = 0 /\ acc = <<>>)
                     \/ (acc # <<>> /\ acc[Len(acc)] = <<DOT, DOT>>)
                  THEN NormComps(rest, Append(acc, comp), initial)
             ELSE IF acc # <<>>
                  THEN NormComps(rest, SubSeq(acc, 1, Len(acc) - 1), initial)
             ELSE NormComps(rest, acc, initial)

\* initial_slashes of posixpath.normpath: 0, 1, or 2 for exactly two slashes
initial_slashes(path) ==
    IF ~StartsWith(path, <<SEP>>) THEN 0
    ELSE IF StartsWith(path, <<SEP, SEP>>) /\ ~StartsWith(path, <<SEP, SEP, SEP>>)
         THEN 2
    ELSE 1

\* sep * initial_slashes
Slashes(n) == IF n = 0 THEN <<>> ELSE IF n = 1 THEN <<SEP>> ELSE <<SEP, SEP>>

\* "path or dot", the last line of posixpath.normpath
or_dot(path) == IF path = <<>> THEN <<DOT>> ELSE path

\* os.path.normpath
normpath(path) ==
    IF path = <<>> THEN <<DOT>>
    ELSE or_dot(Slashes(initial_slashes(path))
                \o Join(NormComps(SplitSep(path), <<>>, initial_slashes(path)), SEP))

\* os.path.isabs
isabs(path) == StartsWith(path, <<SEP>>)

\* the components commonpath compares: the non-empty pieces other than "."
PathComps(path) ==
    SelectSeq(SplitSep(path), LAMBDA c : c # <<>> /\ c # <<DOT>>)

\* the head os.path.split returns: trailing slashes stripped unless it is all slashes
split_head(head) ==
    IF head # <<>> /\ ~AllSep(head) THEN RStrip(head, SEP) ELSE head

\* os.path.split at i = p.rfind(sep) + 1
split_at(p, i) ==
    [head |-> split_head(Slice(p, 0, i)), tail |-> Slice(p, i, Len(p))]

\* os.path.split: [head, tail]
split(p) == split_at(p, RFind(p, SEP) + 1)

\* os.path.splitext(p)[0]
splitext_root(p) ==
    LET sepIndex == RFind(p, SEP)
        dotIndex == RFind(p, DOT)
    IN  IF dotIndex > sepIndex
           /\ \E k \in (sepIndex + 1)..(dotIndex - 1) : p[k + 1] # DOT
        THEN Slice(p, 0, dotIndex)
        ELSE p

(***************************************************************************)
(* simplify_file_path (src/xtlog/utils.py).                                *)
(***************************************************************************)
\* project_root: two directory levels above the directory of utils.py, normalised
ProjectRoot == <<"/", "r">>

\* f"{prefix}:{line_no}@{func_name}"
OriginTag(prefix, line_no, func_name) ==
    prefix \o <<":">> \o IntToStr(line_no) \o <<"@">> \o func_name

\* the length of the longest common prefix of two component lists
RECURSIVE CommonLen(_, _)
CommonLen(a, b) ==
    IF a = <<>> \/ b = <<>> \/ a[1] # b[1] THEN 0
    ELSE 1 + CommonLen(Tail(a), Tail(b))

\* the longest common prefix of two component lists
CommonPrefix(ca, cb) == SubSeq(ca, 1, CommonLen(ca, cb))

\* os.path.commonpath([a, b]): [error |-> ValueError raised, path]
commonpath(a, b) ==
    IF isabs(a) # isabs(b) THEN [error |-> TRUE, path |-> <<>>]
    ELSE [error |-> FALSE,
          path |-> (IF isabs(a) THEN <<SEP>> ELSE <<>>)
                   \o Join(CommonPrefix(PathComps(a), PathComps(b)), SEP)]

\* [x for x in path.split(sep) if x]
NonEmpty(comps) == SelectSeq(comps, LAMBDA c : c # <<>>)

\* rel_list of posixpath.relpath: [pardir] * (len(start_list) - i) + path_list[i:]
rel_list(start_list, path_list, i) ==
    [k \in 1..(Len(start_list) - i) |-> <<DOT, DOT>>]
    \o SubSeq(path_list, i + 1, Len(path_list))

\* the last lines of posixpath.relpath: curdir for no components, else the join
rel_join(rl) == IF rl = <<>> THEN <<DOT>> ELSE Join(rl, SEP)

relpath_lists(start_list, path_list) ==
    rel_join(rel_list(start_list, path_list, CommonLen(start_list, path_list)))

\* os.path.relpath(path, start), both absolute
relpath(path, start) ==
    relpath_lists(NonEmpty(SplitSep(normpath(start))),
                  NonEmpty(SplitSep(normpath(path))))

\* lines 102-106: common_path == project_root, False on ValueError
is_in_project(cp) == ~cp.error /\ cp.path = ProjectRoot

\* line 109, for the normalised file_path
relative_of(fp) ==
    IF is_in_project(commonpath(ProjectRoot, fp)) THEN relpath(fp, ProjectRoot)
    ELSE fp

\* lines 94-109: the path the loop decomposes
relative_path(file_path) == relative_of(normpath(file_path))

\* lines 112-117: the loop "while path_temp and path_temp != os.path.sep".
\* An iteration whose split returns the path itself with an empty part leaves the
\* loop's state as it was: the loop never ends (hang).
RECURSIVE path_parts(_)
\* lines 116-117: parts.insert(0, part) if part
insert_part(r, part) ==
    [hang |-> r.hang,
     parts |-> IF part # <<>> THEN Append(r.parts, part) ELSE r.parts]

\* lines 115-117: one iteration, s the result of os.path.split(path_temp)
loop_step(path_temp, s) ==
    IF s.head = path_temp THEN [hang |-> TRUE, parts |-> <<>>]
    ELSE insert_part(path_parts(s.head), s.tail)

path_parts(path_temp) ==
    IF path_temp = <<>> \/ path_temp = <<SEP>> THEN [hang |-> FALSE, parts |-> <<>>]
    ELSE loop_step(path_temp, split(path_temp))

\* the call never returns
simplify_hangs(file_path) ==
    /\ file_path # <<>>
    /\ file_path # UNKNOWN
    /\ path_parts(relative_path(file_path)).hang

\* a slice that keeps the directory next to the file only: parts[-2:-1]
nearest_directory(parts) == SubSeq(parts, Len(parts) - 1, Len(parts) - 1)

\* line 128: parts[-3:-1] if len(parts) >= 3 else parts[:-1]
module_parts(parts) ==
    IF Len(parts) >= 3 THEN SubSeq(parts, Len(parts) - 2, Len(parts) - 1)
    ELSE SubSeq(parts, 1, Len(parts) - 1)

\* line 129: module_parts[-2:]
last_two(mp) == SubSeq(mp, IF Len(mp) > 2 THEN Len(mp) - 1 ELSE 1, Len(mp))

\* lines 126-133: the tag, n = len(parts)
tag_of(filename, module_path, n, line_no, func_name) ==
    IF n > 1 /\ module_path # <<>>
    THEN OriginTag(module_path \o <<DOT>> \o filename, line_no, func_name)
    ELSE OriginTag(filename, line_no, func_name)

\* lines 119-133
tag_of_parts(parts, line_no, func_name) ==
    IF parts = <<>> THEN OriginTag(UNKNOWN, line_no, func_name)
    ELSE tag_of(splitext_root(parts[Len(parts)]),
                Join(last_two(module_parts(parts)), DOT),
                Len(parts), line_no, func_name)

\* simplify_file_path(file_path, line_no, func_name), for a call that returns.
\* No operation of the try block raises for a str path, so the except branch
\* (lines 135-141) is not taken.
simplify_file_path(file_path, line_no, func_name) ==
    IF file_path = <<>> \/ file_path = UNKNOWN
    THEN OriginTag(UNKNOWN, line_no, func_name)
    ELSE tag_of_parts(path_parts(relative_path(file_path)).parts,
                      line_no, func_name)

(***************************************************************************)
(* get_function_location (src/xtlog/utils.py).                             *)
(*                                                                         *)
(* A Python value passed as callfrom is known by the attributes the        *)
(* resolver reads.  ObjAttrs lists the values the model passes.            *)
(***************************************************************************)
\* a value with none of the attributes
NoAttrs ==
    [callable |-> FALSE, wrapped |-> "none",
     hasCode |-> FALSE, co_filename |-> <<>>, co_firstlineno |-> 0,
     hasName |-> FALSE, name |-> <<>>,
     srcOk |-> FALSE, srcFile |-> <<>>, srcLine |-> 0,
     hasModule |-> FALSE, module |-> <<>>]

ObjIds == {"f", "g", "deco", "cyc", "len", "cls", "inst", "odd", "bare", "text", "num"}

NoObj == "None"

ObjAttrs(o) ==
    CASE o = "f" ->     \* def f, line 12 of <root>/m/a.py
           [NoAttrs EXCEPT !.callable = TRUE, !.hasCode = TRUE,
                           !.co_filename = <<"/", "r", "/", "m", "/", "a", ".", "p", "y">>,
                           !.co_firstlineno = 12,
                           !.hasName = TRUE, !.name = <<"f">>,
                           !.hasModule = TRUE, !.module = <<"m", ".", "a">>]
      [] o = "g" ->     \* def g, line 7 of a file outside the project root
           [NoAttrs EXCEPT !.callable = TRUE, !.hasCode = TRUE,
                           !.co_filename = <<"/", "o", "/", "b", ".", "p", "y">>,
                           !.co_firstlineno = 7,
                           !.hasName = TRUE, !.name = <<"g">>,
                           !.hasModule = TRUE, !.module = <<"b">>]
      [] o = "deco" ->  \* f behind a functools.wraps decorator defined in <root>/d.py
           [NoAttrs EXCEPT !.callable = TRUE, !.wrapped = "f", !.hasCode = TRUE,
                           !.co_filename = <<"/", "r", "/", "d", ".", "p", "y">>,
                           !.co_firstlineno = 3,
                           !.hasName = TRUE, !.name = <<"f">>,
                           !.hasModule = TRUE, !.module = <<"m", ".", "a">>]
      [] o = "cyc" ->   \* a function whose __wrapped__ chain is a cycle
           [NoAttrs EXCEPT !.callable = TRUE, !.wrapped = "cyc", !.hasCode = TRUE,
                           !.co_filename = <<"/", "r", "/", "d", ".", "p", "y">>,
                           !.co_firstlineno = 3,
                           !.hasName = TRUE, !.name = <<"w">>,
                           !.hasModule = TRUE, !.module = <<"d">>]
      [] o = "len" ->   \* a builtin: no __code__, no source
           [NoAttrs EXCEPT !.callable = TRUE,
                           !.hasName = TRUE, !.name = <<"l", "e", "n">>,
                           !.hasModule = TRUE, !.module = <<"b">>]
      [] o = "cls" ->   \* a class defined at line 5 of <root>/m/c.py
           [NoAttrs EXCEPT !.callable = TRUE,
                           !.hasName = TRUE, !.name = <<"C">>,
                           !.srcOk = TRUE,
                           !.srcFile = <<"/", "r", "/", "m", "/", "c", ".", "p", "y">>,
                           !.srcLine = 5,
                           !.hasModule = TRUE, !.module = <<"m", ".", "c">>]
      [] o = "inst" ->  \* an instance with __call__: no __code__, no __name__
           [NoAttrs EXCEPT !.callable = TRUE,
                           !.hasModule = TRUE, !.module = <<"m", ".", "c">>]
      [] o = "odd" ->   \* a callable with a __code__ attribute and no __name__
           [NoAttrs EXCEPT !.callable = TRUE, !.hasCode = TRUE,
                           !.co_filename = <<"/", "o", "/", "b", ".", "p", "y">>,
                           !.co_firstlineno = 9,
                           !.hasModule = TRUE, !.module = <<"b">>]
      [] o = "bare" ->  \* a callable that answers none of the attributes
           [NoAttrs EXCEPT !.callable = TRUE]
      [] OTHER -> NoAttrs   \* "text", "num": not callable

\* lines 48-53: inspect.unwrap under contextlib.suppress(Exception); a cycle in
\* the __wrapped__ chain raises ValueError, which leaves original_func = func.
\* w is func.__wrapped__.
unwrap(func, w) ==
    IF w = "none" \/ ObjAttrs(w).wrapped # "none" THEN func ELSE w

original_func(func) == unwrap(func, ObjAttrs(func).wrapped)

\* {"file": "unknown", "line": 0, "function": "unknown"}
UnknownLocation ==
    [raised |-> FALSE, file |-> UNKNOWN, line |-> 0, function |-> UNKNOWN]

\* lines 43-67, a the attributes of func and o those of original_func
location_of(a, o) ==
    IF ~a.callable THEN UnknownLocation
    ELSE IF o.hasCode
         THEN IF o.hasName
              THEN [raised |-> FALSE, file |-> o.co_filename,
                    line |-> o.co_firstlineno, function |-> o.name]
              ELSE [UnknownLocation EXCEPT !.raised = TRUE]  \* AttributeError, line 58
    ELSE IF o.srcOk /\ o.hasName
         THEN [raised |-> FALSE, file |-> o.srcFile,
               line |-> o.srcLine, function |-> o.name]
    ELSE [raised |-> FALSE,
          file |-> IF a.hasModule THEN a.module ELSE UNKNOWN,
          line |-> 0,
          function |-> IF a.hasName THEN a.name ELSE UNKNOWN]

\* get_function_location(func): [raised, file, line, function]
get_function_location(func) ==
    location_of(ObjAttrs(func), ObjAttrs(original_func(func)))

(***************************************************************************)
(* format_record (src/xtlog/utils.py).                                     *)
(*                                                                         *)
(* A record: extraKind says whether record has the key "extra" and whether *)
(* its value is a dict; keys, callfrom and simplified_path are the dict;   *)
(* fileKind says what record["file"] is.                                   *)
(***************************************************************************)
UnknownTag == UNKNOWN \o <<":", "0", "@">> \o UNKNOWN

\* the record with record["extra"]["simplified_path"] = tag
SetPath(record, tag) ==
    [record EXCEPT !.keys = @ \cup {"simplified_path"}, !.simplified_path = tag]

\* line 190: the file path of the record's own call site
default_file_path(record) ==
    CASE record.fileKind = "dict" -> record.path          \* record["file"]["path"]
      [] record.fileKind = "dictnopath" -> UNKNOWN        \* .get("path", "unknown")
      [] record.fileKind = "str" -> record.path           \* str(record["file"])
      [] OTHER -> UNKNOWN                                 \* no "file" key

\* lines 200-202: the handler of the outer try; the assignment itself raises
\* TypeError when record["extra"] is not a mapping
OuterExcept(record) ==
    IF record.extraKind = "dict"
    THEN [outcome |-> "returned", record |-> SetPath(record, UnknownTag)]
    ELSE [outcome |-> "raised", record |-> record]

\* line 161: record["extra"] = record.get("extra", {})
ensure_extra(record) ==
    IF record.extraKind = "absent"
    THEN [record EXCEPT !.extraKind = "dict", !.keys = {},
                        !.callfrom = NoObj, !.simplified_path = <<>>]
    ELSE record

\* line 165: record["extra"].get("callfrom"): None when the key is absent
get_callfrom(r0) == IF "callfrom" \in r0.keys THEN r0.callfrom ELSE NoObj

\* simplify_file_path(...) and record["extra"]["simplified_path"] = its result
set_simplified_path(r0, file_path, line_no, func_name) ==
    IF simplify_hangs(file_path) THEN [outcome |-> "hang", record |-> r0]
    ELSE [outcome |-> "returned",
          record |-> SetPath(r0, simplify_file_path(file_path, line_no, func_name))]

\* lines 183-184: del record["extra"]["callfrom"], reached when line 180 returned
del_callfrom(res) ==
    IF res.outcome = "returned"
    THEN [res EXCEPT !.record.keys = @ \ {"callfrom"}, !.record.callfrom = NoObj]
    ELSE res

\* lines 173-184, location the result of get_function_location(callfrom)
from_location(r0, location) ==
    IF location.raised THEN OuterExcept(r0)
    ELSE del_callfrom(set_simplified_path(r0, location.file, location.line,
                                          location.function))

\* lines 188-198: the record's own call site
from_record(r0) ==
    set_simplified_path(r0, default_file_path(r0), r0.line, r0.function)

\* a hook that takes every record's own call site
branch_ignoring_callfrom(r0, callfrom) == from_record(r0)

\* lines 167-198: the branch on "callfrom is not None"
branch(r0, callfrom) ==
    IF callfrom # NoObj
    THEN IF ~ObjAttrs(callfrom).callable THEN OuterExcept(r0)      \* TypeError
         ELSE from_location(r0, get_function_location(callfrom))
    ELSE from_record(r0)

\* lines 163-202: the try block; .get on a value that is no dict raises
try_block(r0) ==
    IF r0.extraKind # "dict" THEN OuterExcept(r0)                  \* AttributeError
    ELSE branch(r0, get_callfrom(r0))

\* format_record(record): [outcome, record], outcome "returned", "raised" or "hang"
format_record(record) == try_block(ensure_extra(record))

(***************************************************************************)
(* Levels and configuration (src/xtlog/config.py, src/xtlog/logger.py).    *)
(*                                                                         *)
(* A level is an int or a str: [str, num, name], num used when ~str and    *)
(* name when str.                                                          *)
(***************************************************************************)
IntLevel(n) == [str |-> FALSE, num |-> n, name |-> <<>>]

StrLevel(s) == [str |-> TRUE, num |-> 0, name |-> s]

DEFAULT_LOG_LEVEL == 10

\* LOG_LEVELS of config.py, as the set of its (name, value) pairs
LOG_LEVELS ==
    { <<<<"T", "R", "A", "C", "E">>, 5>>,
      <<<<"D", "E", "B", "U", "G">>, 10>>,
      <<<<"I", "N", "F", "O">>, 20>>,
      <<<<"S", "U", "C", "C", "E", "S", "S">>, 25>>,
      <<<<"W", "A", "R", "N", "I", "N", "G">>, 30>>,
      <<<<"E", "R", "R", "O", "R">>, 40>>,
      <<<<"C", "R", "I", "T", "I", "C", "A", "L">>, 50>> }

LowerChars == <<"a", "b", "c", "d", "e", "f", "g", "h", "i", "j", "k", "l", "m",
                "n", "o", "p", "q", "r", "s", "t", "u", "v", "w", "x", "y", "z">>

UpperChars == <<"A", "B", "C", "D", "E", "F", "G", "H", "I", "J", "K", "L", "M",
                "N", "O", "P", "Q", "R", "S", "T", "U", "V", "W", "X", "Y", "Z">>

\* str.upper()
upper(s) ==
    [i \in 1..Len(s) |->
        IF \E k \in 1..Len(LowerChars) : LowerChars[k] = s[i]
        THEN UpperChars[CHOOSE k \in 1..Len(LowerChars) : LowerChars[k] = s[i]]
        ELSE s[i]]

\* LOG_LEVELS.get(key, default)
LevelsGet(key, default) ==
    IF \E e \in LOG_LEVELS : e[1] = key
    THEN (CHOOSE e \in LOG_LEVELS : e[1] = key)[2]
    ELSE default

\* a lookup by the name as it was given
LevelKeyAsGiven(name) == name

\* the key looked up for a level name: level.upper()
LevelKey(name) == upper(name)

\* "if isinstance(level, str): level = LOG_LEVELS.get(level.upper(), DEFAULT)"
\* (logger.py lines 169-170 and 272-273)
ResolveLevel(level) ==
    IF level.str THEN IntLevel(LevelsGet(LevelKey(level.name), DEFAULT_LOG_LEVEL))
    ELSE level

\* the log_format values of the model: the default template, which renders
\* {extra[simplified_path]}, and a caller's template that does not
OPTIMIZED_FORMAT == "OPTIMIZED_FORMAT"

PlainFormat == "{message}"

\* the format of loguru's own default handler
LoguruFormat == "LOGURU_FORMAT"

HasPathPlaceholder(fmt) == fmt = OPTIMIZED_FORMAT

ConfigKeys ==
    {"level", "serialize", "log_file_rotation_size", "log_file_retention_days",
     "log_format", "log_dir", "log_file_name", "enable_file_logging",
     "enable_console_logging"}

\* the defaults of LogCls.__init__ (lines 99-107); enable_console_logging
\* defaults to None, which line 119 turns into IS_DEV
InitDefaults(is_dev) ==
    [level |-> IntLevel(10),
     serialize |-> FALSE,
     log_file_rotation_size |-> "16 MB",
     log_file_retention_days |-> "30 days",
     log_format |-> OPTIMIZED_FORMAT,
     log_dir |-> "None",
     log_file_name |-> "None",
     enable_file_logging |-> TRUE,
     enable_console_logging |-> is_dev]

\* config with the values that kwargs gives for the keys of config
Merge(config, kwargs) ==
    [k \in DOMAIN config |-> IF k \in DOMAIN kwargs THEN kwargs[k] ELSE config[k]]

\* lines 110-120: the _config that __init__ stores
InitConfig(kwargs, is_dev) ==
    LET c == Merge(InitDefaults(is_dev), kwargs)
    IN  [c EXCEPT !.enable_console_logging =
            ("enable_console_logging" \in DOMAIN kwargs
                /\ kwargs.enable_console_logging) \/ is_dev]

(***************************************************************************)
(* The loguru backend: the handlers of the one global logger.              *)
(***************************************************************************)
NoHandler == -1

\* loguru's handler of a fresh process: stderr, DEBUG
DefaultHandler ==
    [id |-> 0, kind |-> "console", level |-> 10, format |-> LoguruFormat,
     serialize |-> FALSE, rotation |-> "None", retention |-> "None",
     log_dir |-> "None", log_file_name |-> "None"]

(***************************************************************************)
(* A LogCls instance.  alive: the object exists; hasConfig: __init__ has   *)
(* assigned _config and the handler ids; hasLogger: self.logger is set.    *)
(***************************************************************************)
NoObject ==
    [alive |-> FALSE, hasConfig |-> FALSE, hasLogger |-> FALSE,
     _config |-> InitDefaults(FALSE),
     _file_handler_id |-> NoHandler, _console_handler_id |-> NoHandler,
     _initialized |-> FALSE]

\* super().__new__(cls): an object with no attribute yet
NewObject == [NoObject EXCEPT !.alive = TRUE]

\* the handler ids an instance holds
IdsHeldBy(self) == {self._file_handler_id, self._console_handler_id} \ {NoHandler}

\* logger.add returns an id no handler has and nobody holds.  loguru counts
\* upwards and the code never reads an id back, so only identity matters: the
\* model takes the least id that is not in use.
FreshHandlerId(hs, reserved) ==
    LET used == {h.id : h \in hs} \cup reserved
    IN  CHOOSE n \in 0..(Cardinality(used)) : n \notin used

(***************************************************************************)
(* Attribute access on an instance.  Python looks the name up on the       *)
(* instance and its class; LogCls.__getattr__ (lines 266-268) is called    *)
(* when that finds nothing.  An access gives [kind, name]: kind "own" (the *)
(* instance's or the class's attribute), "backend" (the attribute name of  *)
(* the loguru logger), "AttributeError" (raised for name) or               *)
(* "RecursionError".                                                       *)
(***************************************************************************)
\* the methods, properties and constants of LogCls and SingletonMixin
ClassAttrs ==
    {"set_level", "update_config", "get_config", "disable_file_logging",
     "enable_file_logging", "get_logger", "log_file", "DEFAULT_LOG_LEVEL",
     "reset_instance", "has_instance", "get_instance"}

\* the attributes of the loguru logger
BackendAttrs ==
    {"trace", "debug", "info", "success", "warning", "error", "critical",
     "exception", "log", "add", "remove", "bind", "opt", "patch", "level"}

\* the attributes __init__ (lines 110-125) and _initialize_logger (line 164)
\* have assigned so far
instance_attrs(o) ==
    (IF o.hasConfig
     THEN {"_config", "_file_handler_id", "_console_handler_id", "_initialized"}
     ELSE {})
    \cup (IF o.hasLogger THEN {"logger"} ELSE {})

\* getattr(logger, attr)
backend_getattr(attr) ==
    IF attr \in BackendAttrs THEN [kind |-> "backend", name |-> attr]
    ELSE [kind |-> "AttributeError", name |-> attr]

\* LogCls.__getattr__(attr), lines 266-268.  Without the attribute logger,
\* self.logger calls __getattr__("logger"), which reads self.logger again,
\* without end.
getattr(o, attr) ==
    IF "logger" \in instance_attrs(o) THEN backend_getattr(attr)
    ELSE [kind |-> "RecursionError", name |-> "logger"]

\* instance.attr
get_attribute(o, attr) ==
    IF attr \in ClassAttrs \cup instance_attrs(o) THEN [kind |-> "own", name |-> attr]
    ELSE getattr(o, attr)

(***************************************************************************)
(* The methods of LogCls act on st = [self, hs, rebuilt, raised, failed]:  *)
(* the instance, the backend's handlers, the number of                     *)
(* _reinitialize_logger calls so far in the operation, whether an          *)
(* exception is propagating, and which of "makedirs", "file" and "console" *)
(* have raised in the operation.                                           *)
(* env = [mk, file, con] says which of os.makedirs, the file logger.add    *)
(* and the console logger.add succeed; others is the set of handler ids    *)
(* other instances hold.                                                   *)
(***************************************************************************)
Envs ==
    { [mk |-> TRUE, file |-> TRUE, con |-> TRUE],       \* nothing fails
      [mk |-> FALSE, file |-> TRUE, con |-> TRUE],      \* the directory cannot be made
      [mk |-> TRUE, file |-> FALSE, con |-> TRUE],      \* the file cannot be opened
      [mk |-> TRUE, file |-> FALSE, con |-> FALSE] }    \* no sink can be added

\* a rebuild that passes serialize=False whatever the configuration says
never_serialize(c) == FALSE

\* serialize=self._config['serialize'], lines 219 and 240
serialize_argument(c) == c.serialize

\* lines 233-247
setup_console_logging(st, env, others) ==
    IF env.con
    THEN LET id == FreshHandlerId(st.hs, others \cup IdsHeldBy(st.self))
             c == st.self._config
         IN  [st EXCEPT
                 !.hs = @ \cup {[id |-> id, kind |-> "console",
                                 level |-> c.level.num, format |-> c.log_format,
                                 serialize |-> serialize_argument(c),
                                 rotation |-> "None", retention |-> "None",
                                 log_dir |-> "None", log_file_name |-> "None"]},
                 !.self._console_handler_id = id]
    ELSE [st EXCEPT !.failed = @ \cup {"console"}]   \* printed and dropped

\* lines 225-231: the handler of a failed file logger.add
file_add_failed(st, env, others) ==
    LET s1 == [st EXCEPT !.self._config.enable_file_logging = FALSE,
                         !.failed = @ \cup {"file"}]
    IN  IF ~s1.self._config.enable_console_logging
        THEN setup_console_logging(
                 [s1 EXCEPT !.self._config.enable_console_logging = TRUE],
                 env, others)
        ELSE s1

\* lines 191-231
setup_file_logging(st, env, others) ==
    IF ~env.mk                                      \* os.makedirs raises, line 202
    THEN [st EXCEPT !.raised = TRUE, !.failed = @ \cup {"makedirs"}]
    ELSE IF env.file
    THEN LET id == FreshHandlerId(st.hs, others \cup IdsHeldBy(st.self))
             c == st.self._config
         IN  [st EXCEPT
                 !.hs = @ \cup {[id |-> id, kind |-> "file",
                                 level |-> c.level.num, format |-> c.log_format,
                                 serialize |-> serialize_argument(c),
                                 rotation |-> c.log_file_rotation_size,
                                 retention |-> c.log_file_retention_days,
                                 log_dir |-> c.log_dir,
                                 log_file_name |-> c.log_file_name]},
                 !.self._file_handler_id = id]
    ELSE file_add_failed(st, env, others)

\* lines 164-171: self.logger = logger; logger.remove(); resolve the level
begin_initialize(st) ==
    [st EXCEPT !.self.hasLogger = TRUE,
               !.hs = {},
               !.self._config.level = ResolveLevel(@)]

\* lines 174-175
file_step(s1, env, others) ==
    IF s1.self._config.enable_file_logging
    THEN setup_file_logging(s1, env, others) ELSE s1

\* lines 177-179, not reached when line 175 raised
console_step(s2, env, others) ==
    IF s2.raised THEN s2
    ELSE IF s2.self._config.enable_console_logging
    THEN setup_console_logging(s2, env, others) ELSE s2

\* line 181
mark_initialized(s3) ==
    IF s3.raised THEN s3 ELSE [s3 EXCEPT !.self._initialized = TRUE]

\* lines 158-181
initialize_logger(st, env, others) ==
    IF st.self._initialized THEN st
    ELSE mark_initialized(
             console_step(file_step(begin_initialize(st), env, others),
                          env, others))

\* lines 183-189
reinitialize_logger(st, env, others) ==
    initialize_logger(
        [st EXCEPT !.hs = {},
                   !.self._file_handler_id = NoHandler,
                   !.self._console_handler_id = NoHandler,
                   !.self._initialized = FALSE,
                   !.rebuilt = @ + 1],
        env, others)

\* lines 110-125: __init__ assigns the configuration and the internal state
init_fields(st, kwargs, is_dev) ==
    [st EXCEPT !.self.hasConfig = TRUE,
               !.self._config = InitConfig(kwargs, is_dev),
               !.self._file_handler_id = NoHandler,
               !.self._console_handler_id = NoHandler,
               !.self._initialized = FALSE]

\* LogCls.__init__(**kwargs), lines 97-128
init(st, kwargs, is_dev, env, others) ==
    initialize_logger(init_fields(st, kwargs, is_dev), env, others)

\* lines 130-156
reinit_if_needed(st, kwargs, env, others) ==
    IF DOMAIN kwargs = {} THEN st
    ELSE LET new_config == Merge(st.self._config, kwargs)
         IN  IF new_config # st.self._config
             THEN reinitialize_logger([st EXCEPT !.self._config = new_config],
                                      env, others)
             ELSE st

\* a comparison that finds every level new
always_differs(level, current) == TRUE

\* "if level != self._config['level']", line 275
level_differs(level, current) == level # current

\* lines 275-277, lv the level after lines 272-273
set_resolved(st, lv, env, others) ==
    IF level_differs(lv, st.self._config.level)
    THEN reinitialize_logger([st EXCEPT !.self._config.level = lv], env, others)
    ELSE st

\* lines 270-277
set_level(st, level, env, others) ==
    set_resolved(st, ResolveLevel(level), env, others)

\* "self._config[key] != value", line 283
config_differs(value, current) == current # value

\* lines 279-288; kwargs may name keys the configuration does not have
update_config(st, kwargs, env, others) ==
    LET changed == {k \in DOMAIN kwargs \cap DOMAIN st.self._config :
                        config_differs(kwargs[k], st.self._config[k])}
        s1 == [st EXCEPT !.self._config =
                  [k \in DOMAIN @ |-> IF k \in changed THEN kwargs[k] ELSE @[k]]]
    IN  IF changed # {} THEN reinitialize_logger(s1, env, others) ELSE st

\* lines 294-298
disable_file_logging(st, env, others) ==
    IF st.self._config.enable_file_logging
    THEN reinitialize_logger(
             [st EXCEPT !.self._config.enable_file_logging = FALSE], env, others)
    ELSE st

\* lines 300-304
enable_file_logging(st, env, others) ==
    IF ~st.self._config.enable_file_logging
    THEN reinitialize_logger(
             [st EXCEPT !.self._config.enable_file_logging = TRUE], env, others)
    ELSE st

(***************************************************************************)
(* State.                                                                  *)
(***************************************************************************)
VARIABLES
    is_dev,         \* IS_DEV, read from the environment when the module is loaded
    instances,      \* SingletonMixin._instances[LogCls]: an object id or NoInst
    objs,           \* the LogCls objects, by id
    held,           \* the objects the program holds a reference to
    handlers,       \* the handlers of the loguru logger
    patcher,        \* the record hook of the loguru logger self.logger names
    last,           \* what the last operation was given and did
    ops,            \* the number of operations so far
    rec,            \* format_record: the record object it is called with
    arg,            \* format_record: the record as it was when the call began
    outcome,        \* format_record: "input", then how the call ended
    pc,             \* threads: where each thread is in its construction call
    targ,           \* threads: the arguments of each thread's call
    tinst,          \* threads: the local variable "instance" of each thread
    lock            \* threads: the thread that holds _instance_lock, or NoThread

vars ==
    <<is_dev, instances, objs, held, handlers, patcher, last, ops, rec, arg, outcome,
      pc, targ, tinst, lock>>

loggerVars == <<is_dev, instances, objs, held, handlers, patcher, last, ops>>

formatVars == <<rec, arg, outcome>>

threadVars == <<pc, targ, tinst, lock>>

NoInst == 0

Ids == 1..MaxInst

NoThread == 0

Threads == 1..MaxThreads

\* no thread is in a construction call
NoThreads ==
    /\ pc = [t \in Threads |-> "idle"]
    /\ targ = [t \in Threads |-> 1]
    /\ tinst = [t \in Threads |-> NoInst]
    /\ lock = NoThread

\* a call without arguments
NoKwargs == [k \in {} |-> TRUE]

\* the record of an operation, before the operation fills it in
\* op: the operation; inst: the instance it acted on or returned; raised: it
\* ended in an exception; created: __new__ made a new object; rebuilt: how
\* often it ran _reinitialize_logger;
\* given, level: the level it was called with, if any; sev, passed, written,
\* hooked: the severity of the event logged, the handlers whose level let it
\* pass, the handlers that wrote it, whether format_record saw the record;
\* kwargs: the keyword arguments of a construction or update_config call;
\* failed: which of "makedirs", "file" and "console" raised in the operation;
\* in_new, entry: of a construction call, whether __new__ raised, and the
\* registry entry when __new__ ended; files: how many file sinks wrote the
\* event logged; attr, got: the attribute read and what the access gave
NoOp ==
    [op |-> "none", inst |-> NoInst, raised |-> FALSE, created |-> FALSE,
     rebuilt |-> 0, given |-> FALSE, level |-> IntLevel(0),
     sev |-> 0, passed |-> {}, written |-> {}, hooked |-> FALSE,
     kwargs |-> NoKwargs, failed |-> {}, in_new |-> FALSE, entry |-> NoInst,
     files |-> 0, attr |-> "none", got |-> [kind |-> "none", name |-> "none"]]

\* one more operation
Step == ops < MaxOps /\ ops' = ops + 1

\* the handler ids the objects other than i hold
Others(i) == UNION {IdsHeldBy(objs[j]) : j \in Ids \ {i}}

Start(i) ==
    [self |-> objs[i], hs |-> handlers, rebuilt |-> 0, raised |-> FALSE, failed |-> {}]

(***************************************************************************)
(* SingletonMixin (src/xtlog/logger.py lines 18-80).                       *)
(***************************************************************************)
\* a registry that never finds the class
never_in_instances(entry) == FALSE

\* "cls in cls._instances", lines 31 and 41
in_instances(entry) == entry # NoInst

\* a reset that leaves the entry in place
keep_instance(entry) == entry

\* cls._instances.pop(cls, None), line 70: the entry afterwards
pop_instance(entry) == NoInst

has_instance == in_instances(instances)

get_instance == instances

\* super().__new__(cls): an id no living object has
FreshObject == CHOOSE i \in Ids : ~objs[i].alive /\ \A j \in Ids : ~objs[j].alive => i <= j

(***************************************************************************)
(* The inputs of the operations.                                           *)
(***************************************************************************)
LevelInputs ==
    <<IntLevel(10), IntLevel(30),
      StrLevel(<<"W", "a", "r", "n", "i", "n", "g">>),
      StrLevel(<<"l", "o", "u", "d">>)>>

\* the arguments of the construction calls
ConstructInputs ==
    <<NoKwargs,
      [level |-> IntLevel(30)],
      [level |-> StrLevel(<<"w", "a", "r", "n", "i", "n", "g">>)],
      [log_format |-> PlainFormat, serialize |-> TRUE],
      [enable_file_logging |-> FALSE, enable_console_logging |-> TRUE]>>

\* the arguments of the update_config calls
UpdateInputs ==
    <<[level |-> IntLevel(30)],
      [level |-> StrLevel(<<"W", "A", "R", "N", "I", "N", "G">>)],
      [log_format |-> PlainFormat],
      [enable_console_logging |-> FALSE],
      [colour |-> TRUE]>>

\* the environments of the two __init__ runs of one construction call.  The
\* second __init__ assigns the configuration anew and rebuilds every sink, so
\* of the first environment only os.makedirs raising, which ends the call, shows
\* afterwards.
ConstructEnvs ==
    {p \in Envs \X Envs : p[1].file /\ p[1].con /\ (~p[1].mk => p[2] = p[1])}

\* severities of the events: debug and error
Severities == {10, 40}

\* the keyword arguments of a logging call, which loguru puts in extra
ExtraInputs == {{}, {"simplified_path"}}

(***************************************************************************)
(* The operations, one action each.                                        *)
(***************************************************************************)
\* __new__ (lines 24-59) on object i: the registered instance (hit) or a new
\* object
new(hit, i, kwargs, env) ==
    IF hit THEN reinit_if_needed(Start(i), kwargs, env, Others(i))
    ELSE init([Start(i) EXCEPT !.self = NewObject], kwargs, is_dev, env, Others(i))

\* the __init__ that type.__call__ runs on the instance __new__ returned
call_init(s1, i, kwargs, env) ==
    IF s1.raised THEN s1 ELSE init(s1, kwargs, is_dev, env, Others(i))

\* the end of the call, in state s2.  The caller keeps the result (DropRef lets
\* go of it).  The registry holds weak references: an object nobody holds is
\* gone, and its entry with it.
Returned(hit, i, kwargs, entry, in_new, s2) ==
    /\ held' = IF ~s2.raised THEN held \cup {i} ELSE held
    /\ instances' = IF entry # NoInst /\ i \in held' THEN entry ELSE NoInst
    /\ objs' = [objs EXCEPT ![i] = IF i \in held' THEN s2.self ELSE NoObject]
    /\ handlers' = s2.hs
    /\ last' = [NoOp EXCEPT !.op = "construct",
                            !.inst = IF s2.raised THEN NoInst ELSE i,
                            !.raised = s2.raised, !.created = ~hit,
                            !.rebuilt = s2.rebuilt,
                            !.given = "level" \in DOMAIN kwargs,
                            !.level = IF "level" \in DOMAIN kwargs
                                      THEN kwargs.level ELSE @,
                            !.kwargs = kwargs, !.failed = s2.failed,
                            !.in_new = in_new, !.entry = entry]

\* lines 57-58: "if cls in cls._instances: del cls._instances[cls]"
del_failed(entry) == NoInst

\* the registry entry when __new__ ends: the except block of lines 55-59
\* covers lines 49-54 only, so a _reinit_if_needed that raises (lines 35, 44)
\* leaves the entry
entry_after_new(hit, i, raised) ==
    IF ~hit /\ raised THEN del_failed(i) ELSE i

AfterNew(hit, i, kwargs, env2, s1) ==
    Returned(hit, i, kwargs, entry_after_new(hit, i, s1.raised), s1.raised,
             call_init(s1, i, kwargs, env2))

ConstructObject(hit, i, kwargs, env1, env2) ==
    AfterNew(hit, i, kwargs, env2, new(hit, i, kwargs, env1))

\* x = LogCls(**kwargs): __new__ (lines 24-59), then the __init__ Python's
\* type.__call__ runs on the instance __new__ returned
Construct(kwargs, env1, env2) ==
    /\ Step
    /\ in_instances(instances) \/ \E j \in Ids : ~objs[j].alive
    /\ ConstructObject(in_instances(instances),
                       IF in_instances(instances) THEN instances ELSE FreshObject,
                       kwargs, env1, env2)
    /\ UNCHANGED <<is_dev, patcher>>

\* LogCls.reset_instance(), lines 66-70
ResetInstance ==
    /\ Step
    /\ instances' = pop_instance(instances)
    /\ last' = [NoOp EXCEPT !.op = "reset"]
    /\ UNCHANGED <<is_dev, objs, held, handlers, patcher>>

\* the program drops its reference to an instance
DropRef(i) ==
    /\ Step
    /\ i \in held
    /\ held' = held \ {i}
    /\ objs' = [objs EXCEPT ![i] = NoObject]
    /\ instances' = IF instances = i THEN NoInst ELSE instances
    /\ last' = [NoOp EXCEPT !.op = "drop", !.inst = i]
    /\ UNCHANGED <<is_dev, handlers, patcher>>

\* the effect of a method of instance i that ends in state st
Method(i, call, st) ==
    /\ Step
    /\ objs' = [objs EXCEPT ![i] = st.self]
    /\ handlers' = st.hs
    /\ last' = [call EXCEPT !.inst = i, !.raised = st.raised, !.rebuilt = st.rebuilt,
                             !.failed = st.failed]
    /\ UNCHANGED <<is_dev, instances, held, patcher>>

SetLevel(i, level, env) ==
    /\ i \in held
    /\ Method(i, [NoOp EXCEPT !.op = "set_level", !.given = TRUE, !.level = level],
              set_level(Start(i), level, env, Others(i)))

UpdateConfig(i, kwargs, env) ==
    /\ i \in held
    /\ Method(i, [NoOp EXCEPT !.op = "update_config",
                              !.given = "level" \in DOMAIN kwargs,
                              !.level = IF "level" \in DOMAIN kwargs
                                        THEN kwargs.level ELSE @,
                              !.kwargs = kwargs],
              update_config(Start(i), kwargs, env, Others(i)))

DisableFileLogging(i, env) ==
    /\ i \in held
    /\ Method(i, [NoOp EXCEPT !.op = "disable_file_logging"],
              disable_file_logging(Start(i), env, Others(i)))

EnableFileLogging(i, env) ==
    /\ i \in held
    /\ Method(i, [NoOp EXCEPT !.op = "enable_file_logging"],
              enable_file_logging(Start(i), env, Others(i)))

\* the record loguru makes of a logging call with the keyword arguments keys
EventRecord(keys) ==
    [extraKind |-> "dict", keys |-> keys,
     callfrom |-> IF "callfrom" \in keys THEN "f" ELSE NoObj,
     simplified_path |-> IF "simplified_path" \in keys THEN <<"x">> ELSE <<>>,
     fileKind |-> "str", path |-> <<"/", "o", "/", "b", ".", "p", "y">>,
     line |-> 7, function |-> <<"g">>]

\* the handler writes the record: its template renders, which needs
\* extra["simplified_path"] when the template names it (catch=True drops the
\* KeyError, and the record with it)
Renders(h, record) ==
    ~HasPathPlaceholder(h.format) \/ "simplified_path" \in record.keys

\* instance.debug(...) / instance.error(...): __getattr__ (lines 266-268) hands
\* the call to the loguru logger, which runs its patcher on the record and
\* gives the record to every handler whose level the severity reaches
logged(i, sev, keys) ==
    LET hooked == patcher = "format_record"
        fr == format_record(EventRecord(keys))
        record == IF hooked THEN fr.record ELSE EventRecord(keys)
        passed == {h \in handlers : sev >= h.level}
        wrote == {h \in passed : Renders(h, record)}
    IN  [NoOp EXCEPT !.op = "log", !.inst = i,
                     !.sev = sev, !.hooked = hooked,
                     !.passed = {h.id : h \in passed},
                     !.written = {h.id : h \in wrote},
                     !.files = Cardinality({h \in wrote : h.kind = "file"})]

Log(i, sev, keys) ==
    /\ Step
    /\ i \in held
    /\ objs[i].hasLogger
    /\ last' = logged(i, sev, keys)
    /\ UNCHANGED <<is_dev, instances, objs, held, handlers, patcher>>

\* the attributes the program reads: a logging method, an attribute __init__
\* assigns, and a name neither LogCls nor the loguru logger has
AttrInputs == {"info", "_config", "current_level"}

\* instance.attr, the access alone
GetAttr(i, attr) ==
    /\ Step
    /\ i \in held
    /\ last' = [NoOp EXCEPT !.op = "getattr", !.inst = i, !.attr = attr,
                            !.got = get_attribute(objs[i], attr)]
    /\ UNCHANGED <<is_dev, instances, objs, held, handlers, patcher>>

Init ==
    /\ is_dev \in BOOLEAN
    /\ instances = NoInst
    /\ objs = [i \in Ids |-> NoObject]
    /\ held = {}
    /\ handlers = {DefaultHandler}
    /\ patcher = "none"
    /\ last = NoOp
    /\ ops = 0
    /\ rec = EventRecord({})
    /\ arg = rec
    /\ outcome = "input"
    /\ NoThreads

Next ==
    \/ \E n \in 1..Len(ConstructInputs), p \in ConstructEnvs :
          Construct(ConstructInputs[n], p[1], p[2]) /\ UNCHANGED <<formatVars, threadVars>>
    \/ ResetInstance /\ UNCHANGED <<formatVars, threadVars>>
    \/ \E i \in Ids : DropRef(i) /\ UNCHANGED <<formatVars, threadVars>>
    \/ \E i \in Ids, n \in 1..Len(LevelInputs), env \in Envs :
          SetLevel(i, LevelInputs[n], env) /\ UNCHANGED <<formatVars, threadVars>>
    \/ \E i \in Ids, n \in 1..Len(UpdateInputs), env \in Envs :
          UpdateConfig(i, UpdateInputs[n], env) /\ UNCHANGED <<formatVars, threadVars>>
    \/ \E i \in Ids, env \in Envs : DisableFileLogging(i, env) /\ UNCHANGED <<formatVars, threadVars>>
    \/ \E i \in Ids, env \in Envs : EnableFileLogging(i, env) /\ UNCHANGED <<formatVars, threadVars>>
    \/ \E i \in Ids, sev \in Severities, keys \in ExtraInputs :
          Log(i, sev, keys) /\ UNCHANGED <<formatVars, threadVars>>
    \/ \E i \in Ids, attr \in AttrInputs :
          GetAttr(i, attr) /\ UNCHANGED <<formatVars, threadVars>>

Spec == Init /\ [][Next]_vars

(***************************************************************************)
(* format_record on its own: the records it is called with, and the call.  *)
(***************************************************************************)
PathChars == {SEP, DOT, "a", "r"}

\* every string of at most n characters
AllPaths(n) == UNION {[1..k -> PathChars] : k \in 0..n}

SamplePaths ==
    {<<"/", "r", "/", "m", "/", "a", ".", "p", "y">>,
     <<"/", "o", "/", "b", ".", "p", "y">>,
     <<"/", "o", "/", "a", "@", "b", ".", "p", "y">>,
     <<"/", "o", "/", "a", "/", "r", "/", "b", ".", "p", "y">>,
     <<"/", "r", "/", "m", "/", "a", "/", "b", ".", "p", "y">>,
     UNKNOWN}

\* record["extra"]: absent, not a dict, or a dict with or without the keys
\* "callfrom" (holding None or one of ObjIds) and "simplified_path"
ExtraValues ==
    {[extraKind |-> "absent", keys |-> {}, callfrom |-> NoObj, simplified_path |-> <<>>],
     [extraKind |-> "other", keys |-> {}, callfrom |-> NoObj, simplified_path |-> <<>>]}
    \cup {[extraKind |-> "dict", keys |-> ks,
           callfrom |-> c, simplified_path |-> IF "simplified_path" \in ks
                                               THEN <<"x">> ELSE <<>>] :
              ks \in SUBSET {"simplified_path"}, c \in {NoObj}}
    \cup {[extraKind |-> "dict", keys |-> ks \cup {"callfrom"},
           callfrom |-> c, simplified_path |-> IF "simplified_path" \in ks
                                               THEN <<"x">> ELSE <<>>] :
              ks \in SUBSET {"simplified_path"}, c \in ObjIds \cup {NoObj}}

\* record["file"]: a dict with or without "path", another value, or absent
FileValues ==
    {[fileKind |-> k, path |-> p] : k \in {"dict", "str"},
                                    p \in AllPaths(MaxPathLen) \cup SamplePaths}
    \cup {[fileKind |-> k, path |-> <<>>] : k \in {"dictnopath", "absent"}}

FormatInputs ==
    {[extraKind |-> e.extraKind, keys |-> e.keys, callfrom |-> e.callfrom,
      simplified_path |-> e.simplified_path,
      fileKind |-> f.fileKind, path |-> f.path,
      line |-> n, function |-> <<"g">>] :
        e \in ExtraValues, f \in FileValues, n \in {0, 12}}

\* format_record(rec)
FormatRecord ==
    /\ outcome = "input"
    /\ LET r == format_record(rec)
       IN  /\ rec' = r.record
           /\ outcome' = r.outcome
    /\ UNCHANGED <<arg, loggerVars, threadVars>>

InitFormat ==
    /\ is_dev = FALSE
    /\ instances = NoInst
    /\ objs = [i \in Ids |-> NoObject]
    /\ held = {}
    /\ handlers = {DefaultHandler}
    /\ patcher = "none"
    /\ last = NoOp
    /\ ops = 0
    /\ rec \in FormatInputs
    /\ arg = rec
    /\ outcome = "input"
    /\ NoThreads

NextFormat == FormatRecord

SpecFormat == InitFormat /\ [][NextFormat]_vars

(***************************************************************************)
(* Threads that call the constructor at once.  Each thread runs            *)
(* its constructor call a statement at a time and keeps the result; every  *)
(* sink can be added.  A rebuild of the sinks is one step.                 *)
(***************************************************************************)
ThreadInputs == <<NoKwargs, [level |-> IntLevel(30)]>>

AllOk == [mk |-> TRUE, file |-> TRUE, con |-> TRUE]

\* the keyword arguments of thread t's call
kwargs_of(t) == ThreadInputs[targ[t]]

\* thread t goes on at label l
Goto(t, l) == pc' = [pc EXCEPT ![t] = l]

\* leaving the with block of line 39 releases the lock
Release(t) == lock' = IF lock = t THEN NoThread ELSE lock

ThreadFrame == UNCHANGED <<is_dev, patcher, last, ops, formatVars, targ>>

\* line 31: the check without the lock
FirstCheck(t) ==
    /\ pc[t] = "check1"
    /\ Goto(t, IF in_instances(instances) THEN "read1" ELSE "acquire")
    /\ UNCHANGED <<instances, objs, held, handlers, tinst, lock>>
    /\ ThreadFrame

\* line 39: with cls._instance_lock
AcquireLock(t) ==
    /\ pc[t] = "acquire"
    /\ lock = NoThread
    /\ lock' = t
    /\ Goto(t, "check2")
    /\ UNCHANGED <<instances, objs, held, handlers, tinst>>
    /\ ThreadFrame

\* line 41: the check with the lock
SecondCheck(t) ==
    /\ pc[t] = "check2"
    /\ Goto(t, IF in_instances(instances) THEN "read2" ELSE "create")
    /\ UNCHANGED <<instances, objs, held, handlers, tinst, lock>>
    /\ ThreadFrame

\* lines 32 and 42: instance = cls._instances[cls], KeyError when the entry is
\* gone; lines 34 and 44: "if args or kwargs"
ReadInstance(t) ==
    /\ pc[t] \in {"read1", "read2"}
    /\ IF instances = NoInst
       THEN Goto(t, "raised") /\ Release(t) /\ UNCHANGED <<tinst, held>>
       ELSE /\ tinst' = [tinst EXCEPT ![t] = instances]
            /\ held' = held \cup {instances}
            /\ Goto(t, IF DOMAIN kwargs_of(t) # {} THEN "reinit" ELSE "leave")
            /\ UNCHANGED lock
    /\ UNCHANGED <<instances, objs, handlers>>
    /\ ThreadFrame

\* the record of an access to instance i that did not give the attribute
Failed(i, attr) ==
    [NoOp EXCEPT !.op = "getattr", !.inst = i, !.attr = attr,
                 !.got = get_attribute(objs[i], attr)]

\* the end of _reinit_if_needed on instance i, st what the method computes.  A
\* rebuild starts with self.logger.remove(): on an instance whose self.logger
\* is not assigned yet, self.logger goes to __getattr__ (lines 266-268), which
\* reads self.logger again, without end: RecursionError, after line 155 has
\* assigned the new configuration.
ReinitEnd(t, i, st) ==
    IF st.rebuilt > 0 /\ get_attribute(objs[i], "logger").kind # "own"
    THEN /\ objs' = [objs EXCEPT ![i]._config = Merge(@, kwargs_of(t))]
         /\ last' = Failed(i, "logger")
         /\ Goto(t, "raised")
         /\ Release(t)
         /\ UNCHANGED handlers
    ELSE /\ objs' = [objs EXCEPT ![i] = st.self]
         /\ handlers' = st.hs
         /\ Goto(t, "leave")
         /\ UNCHANGED <<lock, last>>

\* lines 35 and 45: instance._reinit_if_needed(**kwargs).  On an instance whose
\* __init__ has not assigned _config yet, self._config (line 134) goes to
\* __getattr__, which reads self.logger, which goes to __getattr__ again,
\* without end: RecursionError.
Reinit(t) ==
    /\ pc[t] = "reinit"
    /\ IF get_attribute(objs[tinst[t]], "_config").kind # "own"
       THEN /\ last' = Failed(tinst[t], "_config")
            /\ Goto(t, "raised")
            /\ Release(t)
            /\ UNCHANGED <<objs, handlers>>
       ELSE ReinitEnd(t, tinst[t],
                      reinit_if_needed(Start(tinst[t]), kwargs_of(t), AllOk,
                                       Others(tinst[t])))
    /\ UNCHANGED <<instances, held, tinst>>
    /\ UNCHANGED <<is_dev, patcher, ops, formatVars, targ>>

\* line 49: instance = super().__new__(cls)
CreateObject(t) ==
    /\ pc[t] = "create"
    /\ \E j \in Ids : ~objs[j].alive
    /\ objs' = [objs EXCEPT ![FreshObject] = NewObject]
    /\ tinst' = [tinst EXCEPT ![t] = FreshObject]
    /\ held' = held \cup {FreshObject}
    /\ Goto(t, "store")
    /\ UNCHANGED <<instances, handlers, lock>>
    /\ ThreadFrame

\* line 51: cls._instances[cls] = instance
StoreInstance(t) ==
    /\ pc[t] = "store"
    /\ instances' = tinst[t]
    /\ Goto(t, "fields_new")
    /\ UNCHANGED <<objs, held, handlers, tinst, lock>>
    /\ ThreadFrame

\* __init__, lines 110-125, called at line 53 or by type.__call__
InitFields(t) ==
    /\ pc[t] \in {"fields_new", "fields_call"}
    /\ objs' = [objs EXCEPT ![tinst[t]] =
                   init_fields(Start(tinst[t]), kwargs_of(t), is_dev).self]
    /\ Goto(t, IF pc[t] = "fields_new" THEN "logger_new" ELSE "logger_call")
    /\ UNCHANGED <<instances, held, handlers, tinst, lock>>
    /\ ThreadFrame

\* the state st that _initialize_logger leaves
InitLoggerEnd(t, st) ==
    /\ objs' = [objs EXCEPT ![tinst[t]] = st.self]
    /\ handlers' = st.hs

\* __init__, line 128: self._initialize_logger(); then __init__ returns, to
\* line 54 or to the caller
InitLogger(t) ==
    /\ pc[t] \in {"logger_new", "logger_call"}
    /\ InitLoggerEnd(t, initialize_logger(Start(tinst[t]), AllOk, Others(tinst[t])))
    /\ Goto(t, IF pc[t] = "logger_new" THEN "leave" ELSE "done")
    /\ UNCHANGED <<instances, held, tinst, lock>>
    /\ ThreadFrame

\* lines 36, 46 and 54: return instance, which leaves the with block; then
\* type.__call__ calls __init__ on the instance
Leave(t) ==
    /\ pc[t] = "leave"
    /\ Release(t)
    /\ Goto(t, "fields_call")
    /\ UNCHANGED <<instances, objs, held, handlers, tinst>>
    /\ ThreadFrame

InitMT ==
    /\ is_dev \in BOOLEAN
    /\ instances = NoInst
    /\ objs = [i \in Ids |-> NoObject]
    /\ held = {}
    /\ handlers = {DefaultHandler}
    /\ patcher = "none"
    /\ last = NoOp
    /\ ops = 0
    /\ rec = EventRecord({})
    /\ arg = rec
    /\ outcome = "input"
    /\ pc = [t \in Threads |-> "check1"]
    /\ targ \in [Threads -> 1..Len(ThreadInputs)]
    /\ tinst = [t \in Threads |-> NoInst]
    /\ lock = NoThread

NextMT ==
    \E t \in Threads :
        \/ FirstCheck(t)
        \/ AcquireLock(t)
        \/ SecondCheck(t)
        \/ ReadInstance(t)
        \/ Reinit(t)
        \/ CreateObject(t)
        \/ StoreInstance(t)
        \/ InitFields(t)
        \/ InitLogger(t)
        \/ Leave(t)

SpecMT == InitMT /\ [][NextMT]_vars

(***************************************************************************)
(* Threads that use one instance at once.  The instance was made by        *)
(* LogCls(log_format="{message}") with every sink added; each thread makes *)
(* one call on it, a rebuild a statement at a time.  logger.add and        *)
(* logger.remove are atomic (loguru takes its own lock in each).           *)
(***************************************************************************)
\* the calls of the threads: set_level(30), set_level(20),
\* disable_file_logging() and error(...)
RebuildInputs ==
    <<[op |-> "set_level", level |-> IntLevel(30)],
      [op |-> "set_level", level |-> IntLevel(20)],
      [op |-> "disable_file_logging", level |-> IntLevel(0)],
      [op |-> "error", level |-> IntLevel(40)]>>

\* the instance and the handlers after LogCls(log_format="{message}")
Built(dev) ==
    init([self |-> NewObject, hs |-> {DefaultHandler}, rebuilt |-> 0,
          raised |-> FALSE, failed |-> {}],
         [log_format |-> PlainFormat], dev, AllOk, {})

\* lines 272-276 and 296-297: instance o after the lines of the method inp
\* that come before its call of _reinitialize_logger
entered(o, inp) ==
    IF inp.op = "set_level"
    THEN IF level_differs(ResolveLevel(inp.level), o._config.level)
         THEN [o EXCEPT !._config.level = ResolveLevel(inp.level)] ELSE o
    ELSE IF o._config.enable_file_logging
         THEN [o EXCEPT !._config.enable_file_logging = FALSE] ELSE o

\* set_level (lines 272-277) and disable_file_logging (lines 296-298) up to
\* the call of _reinitialize_logger, which they make when something changed
EnterMethod(t) ==
    /\ pc[t] = "call"
    /\ RebuildInputs[targ[t]].op # "error"
    /\ objs' = [objs EXCEPT ![tinst[t]] = entered(@, RebuildInputs[targ[t]])]
    /\ Goto(t, IF objs' # objs THEN "remove" ELSE "done")
    /\ UNCHANGED <<instances, held, handlers, tinst, lock>>
    /\ ThreadFrame

\* line 185: self.logger.remove()
RemoveSinks(t) ==
    /\ pc[t] = "remove"
    /\ handlers' = {}
    /\ Goto(t, "clear")
    /\ UNCHANGED <<instances, objs, held, tinst, lock>>
    /\ ThreadFrame

\* lines 186-188
ClearIds(t) ==
    /\ pc[t] = "clear"
    /\ objs' = [objs EXCEPT ![tinst[t]]._file_handler_id = NoHandler,
                            ![tinst[t]]._console_handler_id = NoHandler,
                            ![tinst[t]]._initialized = FALSE]
    /\ Goto(t, "guard")
    /\ UNCHANGED <<instances, held, handlers, tinst, lock>>
    /\ ThreadFrame

\* lines 160-161: "if self._initialized: return"
CheckInitialized(t) ==
    /\ pc[t] = "guard"
    /\ Goto(t, IF objs[tinst[t]]._initialized THEN "done" ELSE "begin")
    /\ UNCHANGED <<instances, objs, held, handlers, tinst, lock>>
    /\ ThreadFrame

\* lines 164-171
BeginInitialize(t) ==
    /\ pc[t] = "begin"
    /\ InitLoggerEnd(t, begin_initialize(Start(tinst[t])))
    /\ Goto(t, "file")
    /\ UNCHANGED <<instances, held, tinst, lock>>
    /\ ThreadFrame

\* lines 174-175
AddFileSink(t) ==
    /\ pc[t] = "file"
    /\ InitLoggerEnd(t, file_step(Start(tinst[t]), AllOk, Others(tinst[t])))
    /\ Goto(t, "console")
    /\ UNCHANGED <<instances, held, tinst, lock>>
    /\ ThreadFrame

\* lines 178-179
AddConsoleSink(t) ==
    /\ pc[t] = "console"
    /\ InitLoggerEnd(t, console_step(Start(tinst[t]), AllOk, Others(tinst[t])))
    /\ Goto(t, "mark")
    /\ UNCHANGED <<instances, held, tinst, lock>>
    /\ ThreadFrame

\* line 181
MarkInitialized(t) ==
    /\ pc[t] = "mark"
    /\ InitLoggerEnd(t, mark_initialized(Start(tinst[t])))
    /\ Goto(t, "done")
    /\ UNCHANGED <<instances, held, tinst, lock>>
    /\ ThreadFrame

\* instance.error(...): the backend gives the event to the handlers it has now
Emit(t) ==
    /\ pc[t] = "call"
    /\ RebuildInputs[targ[t]].op = "error"
    /\ last' = logged(tinst[t], RebuildInputs[targ[t]].level.num, {})
    /\ Goto(t, "done")
    /\ UNCHANGED <<is_dev, instances, objs, held, handlers, patcher, ops,
                   formatVars, targ, tinst, lock>>

InitRebuild ==
    /\ is_dev \in BOOLEAN
    /\ instances = 1
    /\ objs = [i \in Ids |-> IF i = 1 THEN Built(is_dev).self ELSE NoObject]
    /\ held = {1}
    /\ handlers = Built(is_dev).hs
    /\ patcher = "none"
    /\ last = NoOp
    /\ ops = 0
    /\ rec = EventRecord({})
    /\ arg = rec
    /\ outcome = "input"
    /\ pc = [t \in Threads |-> "call"]
    /\ targ \in [Threads -> 1..Len(RebuildInputs)]
    /\ tinst = [t \in Threads |-> 1]
    /\ lock = NoThread

NextRebuild ==
    \E t \in Threads :
        \/ EnterMethod(t)
        \/ RemoveSinks(t)
        \/ ClearIds(t)
        \/ CheckInitialized(t)
        \/ BeginInitialize(t)
        \/ AddFileSink(t)
        \/ AddConsoleSink(t)
        \/ MarkInitialized(t)
        \/ Emit(t)

SpecRebuild == InitRebuild /\ [][NextRebuild]_vars

(***************************************************************************)
(* Properties of the singleton registry.                                   *)
(***************************************************************************)
\* C1: while an instance is registered, every construction call that returns
\* returns that instance and leaves it registered, whatever arguments it is
\* given; set_level, update_config, the file switches and logging calls leave
\* the registry as it is.
C1_SameInstance ==
    [][/\ (last'.op = "construct" /\ ~last'.raised /\ instances # NoInst)
              => (last'.inst = instances /\ instances' = instances
                  /\ ~last'.created)
       /\ last'.op \in {"set_level", "update_config", "disable_file_logging",
                        "enable_file_logging", "log"}
              => instances' = instances]_vars

\* C1: a construction call with arguments has returned the instance that was
\* registered before it
C1_Witness ==
    /\ last.op = "construct"
    /\ ~last.raised
    /\ ~last.created
    /\ last.given
    /\ last.inst = instances
    /\ ops >= 3

C3_OneInstanceForAll ==
    (\A t \in Threads : pc[t] \in {"done", "raised"})
        => /\ Cardinality({i \in Ids : objs[i].alive}) = 1
           /\ instances # NoInst
           /\ \A t \in Threads : pc[t] = "done" /\ tinst[t] = instances

(***************************************************************************)
(* Properties of the level.                                                *)
(***************************************************************************)
\* C8: a set_level call whose resolved level equals the configured level runs
\* no rebuild and leaves the configuration and the sinks as they are; one whose
\* level differs runs one rebuild; so set_level(X) twice in a row on one
\* instance runs at most one rebuild, none of them in the second call.
C8_SetLevelIdempotent ==
    [][last'.op = "set_level" =>
          LET i == last'.inst
              lv == ResolveLevel(last'.level)
          IN  /\ IF lv = objs[i]._config.level
                 THEN /\ last'.rebuilt = 0
                      /\ objs' = objs
                      /\ handlers' = handlers
                 ELSE /\ last'.rebuilt = 1
                      /\ objs'[i]._config.level = lv
              /\ (last.op = "set_level" /\ last.inst = i /\ last.level = last'.level)
                    => (last'.rebuilt = 0 /\ last.rebuilt + last'.rebuilt <= 1)]_vars

\* C8: a set_level call to the level the instance already had (30, which is not
\* the default) has run no rebuild
C8_Witness ==
    /\ last.op = "set_level"
    /\ last.rebuilt = 0
    /\ ~last.raised
    /\ ResolveLevel(last.level) = IntLevel(30)
    /\ objs[last.inst]._config.level = IntLevel(30)

\* the level of the claim's table for the names the model passes: the name
\* matched whatever its case, 10 for a name the table does not have
C10_Expected(name) ==
    IF name \in {<<"w", "a", "r", "n", "i", "n", "g">>,
                 <<"W", "a", "r", "n", "i", "n", "g">>,
                 <<"W", "A", "R", "N", "I", "N", "G">>}
    THEN 30 ELSE 10

\* C10: after a construction, set_level or update_config call that was given a
\* level name, the configured level is the number the table has for the name
\* in upper case, 10 when it has none; the configured level of an initialised
\* instance is never a name.
C10_NameResolved ==
    /\ (/\ last.op \in {"construct", "set_level", "update_config"}
        /\ last.given
        /\ last.level.str
        /\ last.inst # NoInst)
           => objs[last.inst]._config.level = IntLevel(C10_Expected(last.level.name))
    /\ \A i \in Ids : objs[i].hasLogger => ~objs[i]._config.level.str

\* C10: update_config(level="WARNING") has set the level 30
C10_Witness ==
    /\ last.op = "update_config"
    /\ last.given
    /\ last.level = StrLevel(<<"W", "A", "R", "N", "I", "N", "G">>)
    /\ objs[last.inst]._config.level = IntLevel(30)

(***************************************************************************)
(* Properties of the record hook and the sinks.                            *)
(***************************************************************************)
\* C4: every record a handler is given has been seen by format_record, so a
\* handler whose template names extra[simplified_path] writes every record it
\* is given.
C4_HookAttached ==
    last.op = "log" =>
        /\ last.passed # {} => last.hooked
        /\ \A h \in handlers :
              (h.id \in last.passed /\ HasPathPlaceholder(h.format))
                  => h.id \in last.written

\* C9: when the program holds the registered instance only, every sink has the
\* configured level as its threshold, and an event is written by every sink
\* exactly when its severity is at least that level.
C9_ThresholdIsLevel ==
    (/\ last.op = "log"
     /\ instances # NoInst
     /\ last.inst = instances
     /\ held = {instances})
        => \A h \in handlers :
              /\ h.level = objs[instances]._config.level.num
              /\ h.id \in last.written
                    <=> last.sev >= objs[instances]._config.level.num

(***************************************************************************)
(* Properties of format_record.                                            *)
(***************************************************************************)
\* C5: when format_record returns, extra has the key simplified_path and does
\* not have the key callfrom.
C5_CallfromRemoved ==
    outcome = "returned" =>
        /\ "simplified_path" \in rec.keys
        /\ "callfrom" \notin rec.keys

\* C6: format_record raises for no record; when it returns, extra has
\* simplified_path, and that is "unknown:0@unknown" when callfrom was a value
\* that is not callable.
C6_NeverRaises ==
    /\ outcome # "raised"
    /\ outcome = "returned" =>
          /\ "simplified_path" \in rec.keys
          /\ (/\ arg.extraKind = "dict"
              /\ "callfrom" \in arg.keys
              /\ arg.callfrom # NoObj
              /\ ~ObjAttrs(arg.callfrom).callable)
                 => rec.simplified_path = UnknownTag

\* C7: when format_record returns for a record whose callfrom is a callable
\* whose location resolves, the tag is made of that location's file, line and
\* function (for f, defined at line 12 of <root>/m/a.py, "m.a:12@f"); for a
\* record without callfrom (absent or None) it is made of the record's own
\* file path, line and function.
C7_TagSource ==
    outcome = "returned" =>
        LET has == arg.extraKind = "dict" /\ "callfrom" \in arg.keys
                   /\ arg.callfrom # NoObj
            loc == get_function_location(arg.callfrom)
        IN  /\ (has /\ ObjAttrs(arg.callfrom).callable /\ ~loc.raised)
                  => rec.simplified_path
                        = simplify_file_path(loc.file, loc.line, loc.function)
            /\ (has /\ arg.callfrom = "f")
                  => rec.simplified_path = <<"m", ".", "a", ":", "1", "2", "@", "f">>
            /\ ~has /\ arg.extraKind # "other"
                  => rec.simplified_path
                        = simplify_file_path(default_file_path(arg), arg.line,
                                             arg.function)

\* C7: format_record has returned for a record with callfrom = f whose own call
\* site is in another file, and the tag is f's
C7_Witness ==
    /\ outcome = "returned"
    /\ "callfrom" \in arg.keys
    /\ arg.callfrom = "f"
    /\ arg.fileKind = "dict"
    /\ arg.path = <<"/", "o", "/", "b", ".", "p", "y">>
    /\ rec.simplified_path = <<"m", ".", "a", ":", "1", "2", "@", "f">>

(***************************************************************************)
(* Properties of update_config.                                            *)
(***************************************************************************)
\* the value update_config leaves for key k of configuration c, given kwargs
\* kw: the given value, a level name resolved by the rebuild
C11_Merged(c, kw, k) ==
    IF k \in DOMAIN kw
    THEN IF k = "level" THEN ResolveLevel(kw[k]) ELSE kw[k]
    ELSE c[k]

\* C11: update_config runs one rebuild when a given value for a key of the
\* configuration differs from the configured one and none otherwise; with no
\* such value (equal values, or keys the configuration does not have) the
\* instance and the sinks stay as they are; the configuration has the same keys
\* afterwards, each holding the given value if one was given (a level name as
\* its number) and its old value if not, the two sink switches as long as the
\* file sink could be added.
C11_UpdateConfig ==
    [][last'.op = "update_config" =>
          LET i == last'.inst
              kw == last'.kwargs
              c == objs[i]._config
              differs == \E k \in DOMAIN kw \cap DOMAIN c : kw[k] # c[k]
          IN  /\ last'.rebuilt = IF differs THEN 1 ELSE 0
              /\ ~differs => (objs' = objs /\ handlers' = handlers)
              /\ DOMAIN objs'[i]._config = DOMAIN c
              /\ \A k \in DOMAIN c :
                    (k \in {"enable_file_logging", "enable_console_logging"}
                        => "file" \notin last'.failed)
                    => objs'[i]._config[k] = C11_Merged(c, kw, k)]_vars

\* C11: update_config(log_format=...) with a new format has run one rebuild and
\* the configuration and the sinks have the format
C11_Witness ==
    /\ last.op = "update_config"
    /\ last.kwargs = [log_format |-> PlainFormat]
    /\ last.rebuilt = 1
    /\ ~last.raised
    /\ objs[last.inst]._config.log_format = PlainFormat
    /\ handlers # {}
    /\ \A h \in handlers : h.format = PlainFormat

(***************************************************************************)
(* Properties of the sinks.                                                *)
(***************************************************************************)
\* the sinks of one kind among hs
C12_Sinks(hs, kind) == {h \in hs : h.kind = kind}

\* C12: the backend has at most one file sink and at most one console sink,
\* and an event passes at most one sink of each kind.
C12_OneSinkEach ==
    \A kind \in {"file", "console"} :
        /\ Cardinality(C12_Sinks(handlers, kind)) <= 1
        /\ last.op = "log" =>
              Cardinality({h \in C12_Sinks(handlers, kind) : h.id \in last.passed}) <= 1

\* instance o is in degraded mode with the handlers hs: file logging off in the
\* configuration, console logging on, no file handler id held, and, unless
\* adding the console sink raised too, the console sink it holds registered
C13_Degraded(o, hs, failed) ==
    /\ ~o._config.enable_file_logging
    /\ o._config.enable_console_logging
    /\ o._file_handler_id = NoHandler
    /\ "console" \notin failed =>
          \E h \in hs : h.kind = "console" /\ h.id = o._console_handler_id

\* C13: an operation in which adding the file sink raised ends without an
\* exception and leaves its instance in degraded mode; the instance's
\* enable_file_logging then stays False through every operation other than
\* enable_file_logging() and update_config().
C13_DegradedMode ==
    [][/\ "file" \in last'.failed
              => /\ ~last'.raised
                 /\ last'.inst # NoInst
                 /\ C13_Degraded(objs'[last'.inst], handlers', last'.failed)
       /\ ("file" \in last.failed
            /\ objs'[last.inst].alive
            /\ objs'[last.inst]._config.enable_file_logging)
              => last'.op \in {"enable_file_logging", "update_config"}]_vars

\* C14: no operation ends in an exception; an operation in which os.makedirs
\* raised leaves its instance in degraded mode with a console sink, and the
\* events logged afterwards pass that sink.
C14_DirectoryFailure ==
    /\ ~last.raised
    /\ "makedirs" \in last.failed
          => /\ last.inst # NoInst
             /\ C13_Degraded(objs[last.inst], handlers, last.failed)
    /\ (last.op = "log" /\ ~objs[last.inst]._config.enable_file_logging)
          => \E h \in handlers : h.kind = "console" /\ h.id \in last.passed

C16_SerializedRebuild ==
    (\A t \in Threads : pc[t] = "done")
        => /\ \A kind \in {"file", "console"} :
                 Cardinality(C12_Sinks(handlers, kind)) <= 1
           /\ objs[1]._file_handler_id # NoHandler
                 => \E h \in C12_Sinks(handlers, "file") :
                       h.id = objs[1]._file_handler_id
           /\ objs[1]._console_handler_id # NoHandler
                 => \E h \in C12_Sinks(handlers, "console") :
                       h.id = objs[1]._console_handler_id
           /\ \A h \in handlers : h.level = objs[1]._config.level.num

\* C17: while no thread switches file logging off, an error event (whose
\* severity passes the level before and after every set_level of the threads)
\* is written by exactly one file sink.
C17_WrittenOnce ==
    (/\ last.op = "log"
     /\ \A t \in Threads : RebuildInputs[targ[t]].op # "disable_file_logging")
        => last.files = 1

(***************************************************************************)
(* Properties of simplify_file_path and get_function_location.             *)
(***************************************************************************)
\* s ends with suffix
C18_EndsWith(s, suffix) ==
    /\ Len(s) >= Len(suffix)
    /\ SubSeq(s, Len(s) - Len(suffix) + 1, Len(s)) = suffix

\* C18: format_record called for a record without callfrom calls
\* simplify_file_path(f, n, fn) with the record's own file path, line and
\* function; the call returns, and the tag it returns is not empty and ends
\* with ":<n>@<fn>"; it is "unknown:<n>@<fn>" when f is empty or "unknown".
C18_SimplifyTotal ==
    (/\ outcome # "input"
     /\ arg.extraKind # "other"
     /\ get_callfrom(ensure_extra(arg)) = NoObj)
        => /\ outcome = "returned"
           /\ rec.simplified_path # <<>>
           /\ C18_EndsWith(rec.simplified_path,
                           OriginTag(<<>>, arg.line, arg.function))
           /\ default_file_path(arg) \in {<<>>, UNKNOWN}
                 => rec.simplified_path
                       = OriginTag(UNKNOWN, arg.line, arg.function)

\* the places of character c in s
C19_Places(s, c) == {k \in 1..Len(s) : s[k] = c}

\* C19: the tag format_record stores is not empty and has one ":" and one "@",
\* the ":" before the "@" with the digits of the line number, and nothing
\* else, between them.
C19_TagShape ==
    outcome = "returned" =>
        /\ rec.simplified_path # <<>>
        /\ Cardinality(C19_Places(rec.simplified_path, ":")) = 1
        /\ Cardinality(C19_Places(rec.simplified_path, "@")) = 1
        /\ \A c \in C19_Places(rec.simplified_path, ":"),
              a \in C19_Places(rec.simplified_path, "@") :
                /\ c + 1 < a
                /\ \A k \in (c + 1)..(a - 1) :
                      \E d \in 1..Len(Digits) : rec.simplified_path[k] = Digits[d]

\* C20: get_function_location raises for no value of callfrom; for a value
\* that is not callable it returns the unknown location, and for a callable a
\* location with a file and a function name.
C20_ResolverTotal ==
    (/\ outcome # "input"
     /\ arg.extraKind = "dict"
     /\ "callfrom" \in arg.keys)
        => /\ ~get_function_location(arg.callfrom).raised
           /\ ~ObjAttrs(arg.callfrom).callable
                 => get_function_location(arg.callfrom) = UnknownLocation
           /\ get_function_location(arg.callfrom).file # <<>>
           /\ get_function_location(arg.callfrom).function # <<>>

(***************************************************************************)
(* Properties of attribute access.                                         *)
(***************************************************************************)
\* C21: an access to an attribute that neither the instance nor its class has
\* gives the loguru logger's attribute of that name when the logger has it,
\* and raises AttributeError for that name when it has not; it gives no other
\* attribute and does not end in RecursionError, whether or not __init__ has
\* assigned self.logger.
C21_Forwarding ==
    (last.op = "getattr" /\ last.got.kind # "own")
        => /\ last.got.kind # "RecursionError"
           /\ last.got.name = last.attr
           /\ last.got.kind = IF last.attr \in BackendAttrs
                              THEN "backend" ELSE "AttributeError"

\* C22: after a construction with level=v that made a new instance (the
\* registry was empty, as reset_instance leaves it), reading current_level on
\* the returned instance gives an attribute of the instance, and the level the
\* instance holds is v.
C22_CurrentLevel ==
    [][(/\ last.op = "construct"
        /\ last.created
        /\ last.given
        /\ ~last.raised
        /\ last'.op = "getattr"
        /\ last'.inst = last.inst
        /\ last'.attr = "current_level")
          => /\ last'.got.kind = "own"
             /\ objs'[last.inst]._config.level = ResolveLevel(last.level)]_vars

(***************************************************************************)
(* Properties of the tag simplify_file_path makes.                         *)
(***************************************************************************)
\* sub occurs in s
C23_Contains(s, sub) ==
    \E k \in 0..(Len(s) - Len(sub)) : SubSeq(s, k + 1, k + Len(sub)) = sub

\* the name of the file of path p, with its extension
C23_FileName(p) == Slice(p, RFind(p, SEP) + 1, Len(p))

\* C23: for a record without callfrom whose file is the absolute path of a
\* source file (it ends in ".py"), the tag that format_record stores, which is
\* simplify_file_path(p, n, fn), contains the file's name with its extension,
\* the digits of the line number and the function name.
C23_TagHasFileName ==
    (/\ outcome = "returned"
     /\ arg.extraKind # "other"
     /\ get_callfrom(ensure_extra(arg)) = NoObj
     /\ arg.fileKind \in {"dict", "str"}
     /\ isabs(arg.path)
     /\ C18_EndsWith(arg.path, <<".", "p", "y">>))
        => /\ C23_Contains(rec.simplified_path, C23_FileName(arg.path))
           /\ C23_Contains(rec.simplified_path, IntToStr(arg.line))
           /\ C23_Contains(rec.simplified_path, arg.function)

\* the segments of the path the loop decomposes: the pieces between separators
C24_Segments(file_path) == NonEmpty(SplitSep(relative_path(file_path)))

\* the prefix of the claim for the segments s, Len(s) >= 1
C24_Prefix(s) ==
    IF Len(s) = 1 THEN splitext_root(s[1])
    ELSE IF Len(s) = 2 THEN s[1] \o <<DOT>> \o splitext_root(s[2])
    ELSE s[Len(s) - 2] \o <<DOT>> \o s[Len(s) - 1] \o <<DOT>>
         \o splitext_root(s[Len(s)])

C25_BackToReady ==
    \A i \in held :
        /\ objs[i]._initialized
        /\ ~(/\ ~objs[i]._initialized
             /\ handlers = {}
             /\ \/ objs[i]._config.enable_file_logging
                \/ objs[i]._config.enable_console_logging)

\* instance o holds the id of a sink of the kind that is registered in hs
C26_Holds(o, hs, kind) ==
    \E h \in C12_Sinks(hs, kind) :
        h.id = IF kind = "file" THEN o._file_handler_id ELSE o._console_handler_id

\* C26: while the program holds the registered instance only and it is READY,
\* it holds the id of a registered file sink exactly when its configuration
\* has enable_file_logging, and the id of a registered console sink exactly
\* when it has enable_console_logging.
C26_SinksMatchConfig ==
    (/\ instances # NoInst
     /\ held = {instances}
     /\ objs[instances]._initialized)
        => /\ C26_Holds(objs[instances], handlers, "file")
                 <=> objs[instances]._config.enable_file_logging
           /\ C26_Holds(objs[instances], handlers, "console")
                 <=> objs[instances]._config.enable_console_logging

(***************************************************************************)
(* Properties of what a call leaves alone.                                 *)
(***************************************************************************)
\* C27: a set_level(L) call in which every sink could be registered leaves
\* the configuration as it was but for the level, which is L; when it rebuilt
\* the sinks, every sink has the threshold L and the serialize flag and the
\* template of the configuration, the file sink its rotation size, retention
\* period and destination, and the file sink and the console sink exist exactly
\* when the configuration, as it was before the call, enables them; when it
\* did not rebuild, the sinks are the ones from before.
C27_OnlyLevelChanges ==
    [][(last'.op = "set_level" /\ ~last'.raised /\ last'.failed = {}) =>
          LET c == objs[last'.inst]._config
              L == ResolveLevel(last'.level)
          IN  /\ objs'[last'.inst]._config = [c EXCEPT !.level = L]
              /\ last'.rebuilt = 0 => handlers' = handlers
              /\ last'.rebuilt > 0 =>
                    /\ \A h \in handlers' :
                          /\ h.level = L.num
                          /\ h.serialize = c.serialize
                          /\ h.format = c.log_format
                    /\ \A h \in C12_Sinks(handlers', "file") :
                          /\ h.rotation = c.log_file_rotation_size
                          /\ h.retention = c.log_file_retention_days
                          /\ h.log_dir = c.log_dir
                          /\ h.log_file_name = c.log_file_name
                    /\ C12_Sinks(handlers', "file") # {} <=> c.enable_file_logging
                    /\ C12_Sinks(handlers', "console") # {}
                          <=> c.enable_console_logging]_vars

\* C27: set_level(30) on a logger whose configuration has serialize=True has
\* rebuilt the sinks, and the file sink and every other sink serialize
C27_Witness ==
    /\ last.op = "set_level"
    /\ last.rebuilt = 1
    /\ ~last.raised
    /\ last.failed = {}
    /\ objs[last.inst]._config.serialize
    /\ objs[last.inst]._config.level = IntLevel(30)
    /\ C12_Sinks(handlers, "file") # {}
    /\ \A h \in handlers : h.serialize /\ h.level = 30

\* C28: a construction call that finds a registered instance and is given no
\* arguments, or arguments that leave the configuration as it is, leaves the
\* instance and the sinks as they are and runs no rebuild; one whose arguments
\* change the configuration leaves the configuration with the given values.
\* So LogCls(level=30) followed by LogCls() leaves the level at 30.
C28_ConstructLeavesInstance ==
    [][(last'.op = "construct" /\ ~last'.created /\ ~last'.raised) =>
          LET i == last'.inst
              c == objs[i]._config
          IN  IF Merge(c, last'.kwargs) = c
              THEN /\ objs'[i] = objs[i]
                   /\ handlers' = handlers
                   /\ last'.rebuilt = 0
              ELSE \A k \in DOMAIN c :
                      ("file" \notin last'.failed
                          \/ k \notin {"enable_file_logging", "enable_console_logging"})
                      => objs'[i]._config[k] = C11_Merged(c, last'.kwargs, k)]_vars

(***************************************************************************)
(* Properties of threads in the constructor.                               *)
(***************************************************************************)
\* C29: a thread that has an instance in hand in __new__, to call
\* _reinit_if_needed on it or to return it, has one whose first __init__ has
\* assigned the configuration and the backend reference.
C29_NoPartialInstance ==
    \A t \in Threads :
        pc[t] \in {"reinit", "leave"}
            => /\ objs[tinst[t]].hasConfig
               /\ objs[tinst[t]].hasLogger

(***************************************************************************)
(* Properties of the loop of simplify_file_path.                           *)
(***************************************************************************)
\* C30: the loop of lines 114-117 ends for the path of every record: no call
\* of format_record stays in it, and every step of the decomposition of the
\* record's own file path leaves a shorter path, until the path is empty or
\* the separator.
C30_LoopTerminates ==
    outcome # "input" =>
        /\ outcome # "hang"
        /\ ~path_parts(relative_path(default_file_path(arg))).hang

=============================================================================
